---- MODULE Spec2Model ----
(***************************************************************************)
(* Model of the obsidian-safe-mcp-server sandbox layer: the write path     *)
(* (updateFileContent), the read path (getAllFilenames, readMultipleFiles, *)
(* getOpenTodos) and the validators of utils.ts, over a small POSIX        *)
(* filesystem with directories, regular files (inodes) and symbolic links. *)
(*                                                                         *)
(* A JavaScript string is a sequence of one-character strings, so that     *)
(* split, startsWith, extname, toLowerCase and resolve are computed the    *)
(* way the code computes them.                                             *)
(***************************************************************************)
EXTENDS Integers, Sequences, FiniteSets, TLC

\* ------------------------------------------------------------------------
\* Strings
\* ------------------------------------------------------------------------

\* The path separator p.sep (POSIX) and the NUL character "\0".
SEP == "/"
DOT == "."
NUL == "\\0"

\* String.prototype.includes for one character.
Includes(s, c) == \E i \in 1..Len(s) : s[i] = c

\* String.prototype.startsWith.
StartsWith(s, pre) ==
    /\ Len(pre) <= Len(s)
    /\ \A i \in 1..Len(pre) : s[i] = pre[i]

\* String.prototype.toLowerCase on the letters the model uses.
LowerChar(c) ==
    CASE c = "A" -> "a"
      [] c = "B" -> "b"
      [] c = "D" -> "d"
      [] c = "M" -> "m"
      [] c = "N" -> "n"
      [] c = "V" -> "v"
      [] OTHER -> c

ToLowerCase(s) == [i \in 1..Len(s) |-> LowerChar(s[i])]

\* String.prototype.split(p.sep): "a//b" gives <<"a", "", "b">>, "" gives <<"">>.
\* The first piece ends before the first separator; the rest is split in turn.
RECURSIVE Split(_)
Split(s) ==
    LET seps == {i \in 1..Len(s) : s[i] = SEP}
    IN  IF seps = {} THEN <<s>>
        ELSE LET i == CHOOSE j \in seps : \A k \in seps : j <= k
             IN  <<SubSeq(s, 1, i - 1)>> \o Split(SubSeq(s, i + 1, Len(s)))

\* Array.prototype.join(p.sep).
RECURSIVE Join(_)
Join(segs) ==
    IF Len(segs) = 0 THEN <<>>
    ELSE IF Len(segs) = 1 THEN segs[1]
    ELSE segs[1] \o <<SEP>> \o Join(Tail(segs))

\* ------------------------------------------------------------------------
\* node:path (POSIX)
\* ------------------------------------------------------------------------

\* The normalisation step of path.resolve: "" and "." are dropped, ".."
\* removes the segment before it and is dropped at the root.
RECURSIVE NormalizeSegs(_, _)
NormalizeSegs(segs, acc) ==
    IF Len(segs) = 0 THEN acc
    ELSE LET h == Head(segs) IN
         IF h = <<>> \/ h = <<DOT>> THEN NormalizeSegs(Tail(segs), acc)
         ELSE IF h = <<DOT, DOT>>
              THEN NormalizeSegs(Tail(segs),
                                 IF Len(acc) = 0 THEN acc
                                 ELSE SubSeq(acc, 1, Len(acc) - 1))
              ELSE NormalizeSegs(Tail(segs), Append(acc, h))

\* An absolute path from its segments: <<>> is "/".
AbsPath(segs) == <<SEP>> \o Join(segs)

\* The segments of an absolute, normalised path.
AbsSegs(abs) == NormalizeSegs(Split(abs), <<>>)

\* path.resolve(from, to) with `from` absolute: an absolute `to` replaces
\* `from`; the result is normalised and carries no trailing separator.
PathResolve(from, to) ==
    IF Len(to) > 0 /\ to[1] = SEP
    THEN AbsPath(NormalizeSegs(Split(to), <<>>))
    ELSE AbsPath(NormalizeSegs(Split(from) \o Split(to), <<>>))

\* path.join(root, rel) followed by the kernel's reading of the result.
PathJoin(from, to) == AbsPath(NormalizeSegs(Split(from) \o Split(to), <<>>))

\* The index of the last character that is not a trailing separator (0 if none).
Greatest(S) == CHOOSE j \in S : \A k \in S : k <= j
TrimEnd(s, i) == Greatest({0} \cup {j \in 1..i : s[j] # SEP})

\* The index of the last separator at or before i (0 if none).
LastSep(s, i) == Greatest({0} \cup {j \in 1..i : s[j] = SEP})

\* The index of the last dot of s (0 if none).
LastDot(s, i) == Greatest({0} \cup {j \in 1..i : s[j] = DOT})

\* path.basename: the last component, trailing separators ignored.
Basename(s) ==
    LET e == TrimEnd(s, Len(s))
        b == LastSep(s, e)
    IN  IF e = 0 THEN <<>> ELSE SubSeq(s, b + 1, e)

\* path.dirname: the path up to, not including, the separator before the
\* last component; "/" for a child of the root, "." when there is no separator.
Dirname(s) ==
    LET e == TrimEnd(s, Len(s))
        b == LastSep(s, e)
    IN  IF Len(s) = 0 THEN <<DOT>>
        ELSE IF b = 0 THEN (IF s[1] = SEP THEN <<SEP>> ELSE <<DOT>>)
        ELSE IF b = 1 THEN <<SEP>>
        ELSE IF b = 2 /\ s[1] = SEP THEN <<SEP, SEP>>
        ELSE SubSeq(s, 1, b - 1)

\* path.extname: from the last dot of the last component to its end; ""
\* when there is no dot, when the only dot is the first character of the
\* component, and when the component is "..".
ExtName(s) ==
    LET base == Basename(s)
        d    == LastDot(base, Len(base))
    IN  IF d = 0 \/ d = 1 \/ base = <<DOT, DOT>> THEN <<>>
        ELSE SubSeq(base, d, Len(base))

\* ------------------------------------------------------------------------
\* Errors and result texts
\* ------------------------------------------------------------------------

\* A thrown Error: `code` is the errno code of a filesystem error ("" for an
\* Error the program constructs), `msg` is the fixed part of the message and
\* `arg` the interpolated part (a path or an extension).
NoError == [code |-> "none", msg |-> "", arg |-> <<>>]
Err(m, a) == [code |-> "", msg |-> m, arg |-> a]

\* The Error a failing filesystem call throws: Node's message is
\* "<code>: <description>, <syscall> '<path>'", so it starts with the code
\* and names the path.
NativeError(c, path) == [code |-> c, msg |-> c, arg |-> path]

MsgNullBytes == "File path contains null bytes."
MsgEscapes == "File path escapes the vault directory."
MsgDotPath == "Cannot write to dot-prefixed files or directories."
MsgSymlinkedDir == "Cannot write through a symlinked directory."
MsgExtension == "File extension"
MsgExceedsLength == "File path exceeds the maximum length"
MsgExceedsDepth == "File path exceeds the maximum depth"
MsgNotConfigured == "Vault path is not configured."

\* The text of a tool result: a prefix, a fixed part and an interpolated part.
Text(pre, m, a) == [prefix |-> pre, msg |-> m, arg |-> a]
TxtSymlink == Text("Error: ", "Cannot write to a symbolic link.", <<>>)
TxtGeneric == Text("Error: ", "Failed to write file.", <<>>)
TxtError(e) == Text("Error: ", e.msg, e.arg)
TxtUpdated(filePath) == Text("", "Successfully updated existing file: ", filePath)
TxtCreated(filePath) == Text("", "Successfully created new file: ", filePath)
TxtNoVault == Text("Error: ", "No vault path provided. Please specify a vault path when starting the server.", <<>>)
TxtNone == Text("", "", <<>>)

\* ------------------------------------------------------------------------
\* utils.ts
\* ------------------------------------------------------------------------

MAX_PATH_LENGTH == 512
MAX_PATH_DEPTH == 10

\* The extensions a write may target.
ALLOWED_WRITE_EXTENSIONS ==
    { <<".", "m", "d">>,
      <<".", "t", "x", "t">>,
      <<".", "c", "s", "v">>,
      <<".", "j", "s", "o", "n">>,
      <<".", "y", "a", "m", "l">>,
      <<".", "y", "m", "l">>,
      <<".", "c", "a", "n", "v", "a", "s">> }

\* Each assert* yields the Error it throws, NoError when it returns.
assertNoNullBytes(filePath) ==
    IF Includes(filePath, NUL) THEN Err(MsgNullBytes, <<>>) ELSE NoError

\* As assertInsideVault, but the root itself passes.
assertInsideVaultOrRoot(fullPath, resolvedVault) ==
    IF ~StartsWith(fullPath, resolvedVault \o <<SEP>>) /\ fullPath # resolvedVault
    THEN Err(MsgEscapes, <<>>)
    ELSE NoError

assertInsideVault(fullPath, resolvedVault) ==
    IF ~StartsWith(fullPath, resolvedVault \o <<SEP>>)
    THEN Err(MsgEscapes, <<>>)
    ELSE NoError

\* As assertNoDotPaths, but only the start of the path is examined.
assertNoDotPathsFirstOnly(filePath) ==
    IF StartsWith(filePath, <<DOT>>) THEN Err(MsgDotPath, <<>>) ELSE NoError

assertNoDotPaths(filePath) ==
    LET segments == Split(filePath) IN
    IF \E i \in 1..Len(segments) : StartsWith(segments[i], <<DOT>>)
    THEN Err(MsgDotPath, <<>>)
    ELSE NoError

\* As assertAllowedExtension, but the extension is compared as written.
assertAllowedExtensionCaseSensitive(filePath) ==
    LET ext == ExtName(filePath) IN
    IF ext = <<>> \/ ext \notin ALLOWED_WRITE_EXTENSIONS
    THEN Err(MsgExtension, ext)
    ELSE NoError

assertAllowedExtension(filePath) ==
    LET ext == ToLowerCase(ExtName(filePath)) IN
    IF ext = <<>> \/ ext \notin ALLOWED_WRITE_EXTENSIONS
    THEN Err(MsgExtension, ext)
    ELSE NoError

\* Limits that count the ceiling itself as too much.
assertPathLimitsInclusive(filePath) ==
    IF Len(filePath) >= MAX_PATH_LENGTH THEN Err(MsgExceedsLength, <<>>)
    ELSE IF Len(Split(filePath)) >= MAX_PATH_DEPTH THEN Err(MsgExceedsDepth, <<>>)
    ELSE NoError

assertPathLimits(filePath) ==
    IF Len(filePath) > MAX_PATH_LENGTH THEN Err(MsgExceedsLength, <<>>)
    ELSE IF Len(Split(filePath)) > MAX_PATH_DEPTH THEN Err(MsgExceedsDepth, <<>>)
    ELSE NoError

\* The first Error of a sequence of checks run in order, NoError if none throws.
RECURSIVE FirstError(_)
FirstError(checks) ==
    IF Len(checks) = 0 THEN NoError
    ELSE IF Head(checks) # NoError THEN Head(checks)
    ELSE FirstError(Tail(checks))

\* ------------------------------------------------------------------------
\* The filesystem
\* ------------------------------------------------------------------------

\* `fs` maps each absolute path that exists to its directory entry; `inodes`
\* holds the regular files, so that an open descriptor keeps naming its
\* file when the path is later unlinked or replaced.
VARIABLES fs, inodes, fds, clock

DirEntry == [kind |-> "dir", ino |-> 0, target |-> <<>>]
FileEntry(i) == [kind |-> "file", ino |-> i, target |-> <<>>]
LinkEntry(t) == [kind |-> "link", ino |-> 0, target |-> t]

\* A lookup that follows more symbolic links than there are entries is in a
\* cycle: the kernel gives up with ELOOP.
MaxHops(f) == Cardinality(DOMAIN f)

Found(p) == [errno |-> "", path |-> p]
Failed(c, p) == [errno |-> c, path |-> p]

\* Path lookup: walks `rest` below the physical directory `cur`, following
\* every symbolic link met (targets are absolute). Yields the physical path
\* of the last component, or the errno of the lookup; a missing last
\* component yields ENOENT with the physical path it would have.
RECURSIVE Walk(_, _, _, _)
Walk(f, cur, rest, hops) ==
    IF Len(rest) = 0 THEN Found(AbsPath(cur))
    ELSE LET p == AbsPath(Append(cur, Head(rest))) IN
         IF p \notin DOMAIN f
         THEN Failed(IF Len(rest) = 1 THEN "ENOENT" ELSE "ENOENT-DIR", p)
         ELSE IF f[p].kind = "link"
              THEN IF hops = 0 THEN Failed("ELOOP", p)
                   ELSE Walk(f, <<>>, AbsSegs(f[p].target) \o Tail(rest), hops - 1)
         ELSE IF f[p].kind = "dir"
              THEN Walk(f, Append(cur, Head(rest)), Tail(rest), hops)
         ELSE IF Len(rest) = 1 THEN Found(p)
              ELSE Failed("ENOTDIR", p)

\* stat(2)-style lookup: every component is followed.
Follow(f, abs) == Walk(f, <<>>, AbsSegs(abs), MaxHops(f))

\* lstat(2)-style lookup: the directories are followed, the last component
\* is not.
NoFollow(f, abs) ==
    LET segs == AbsSegs(abs) IN
    IF Len(segs) = 0 THEN Found(AbsPath(<<>>))
    ELSE LET dir == Walk(f, <<>>, SubSeq(segs, 1, Len(segs) - 1), MaxHops(f)) IN
         IF dir.errno # "" THEN Failed(IF dir.errno = "ENOENT" THEN "ENOENT-DIR" ELSE dir.errno, dir.path)
         ELSE IF f[dir.path].kind # "dir" THEN Failed("ENOTDIR", dir.path)
         ELSE LET p == AbsPath(Append(AbsSegs(dir.path), segs[Len(segs)])) IN
              IF p \in DOMAIN f THEN Found(p) ELSE Failed("ENOENT", p)

\* fs.existsSync: true when stat succeeds.
existsSync(f, abs) == Follow(f, abs).errno = ""

\* fs.lstatSync(p).isSymbolicLink(); the caller checks lstatErrno first.
lstatErrno(f, abs) ==
    LET r == NoFollow(f, abs) IN
    IF r.errno = "ENOENT-DIR" THEN "ENOENT" ELSE r.errno
isSymbolicLink(f, abs) == f[NoFollow(f, abs).path].kind = "link"

\* fs.mkdirSync(p, {recursive: true}): creates, front to back, every
\* directory of the path that is missing, at the place the lookup reaches
\* (through symbolic links); fails where a component is not a directory.
RECURSIVE mkdirp(_, _, _)
mkdirp(f, segs, n) ==
    IF n > Len(segs) THEN [errno |-> "", fs |-> f]
    ELSE LET r == Follow(f, AbsPath(SubSeq(segs, 1, n))) IN
         IF r.errno = "" THEN
              IF f[r.path].kind = "dir" THEN mkdirp(f, segs, n + 1)
              ELSE [errno |-> "ENOTDIR", fs |-> f]
         ELSE IF r.errno = "ENOENT" /\ r.path \notin DOMAIN f
              THEN mkdirp([q \in DOMAIN f \cup {r.path} |->
                              IF q = r.path THEN DirEntry ELSE f[q]], segs, n + 1)
         ELSE [errno |-> IF r.errno = "ENOENT-DIR" THEN "ENOENT" ELSE r.errno, fs |-> f]

mkdirSync(f, abs) == mkdirp(f, AbsSegs(abs), 1)

\* The lookup of an open without O_NOFOLLOW: the last component is followed.
openLookupFollowing(f, abs) ==
    LET r == Follow(f, abs) IN
    IF r.errno = "" /\ f[r.path].kind = "file" THEN r ELSE NoFollow(f, abs)

\* The lookup openSync performs under O_NOFOLLOW: the last component is not
\* followed.
openLookup(f, abs) == NoFollow(f, abs)

\* fs.openSync(p, O_WRONLY | O_CREAT | O_TRUNC | O_NOFOLLOW, 0o644): a
\* symbolic link as last component fails with ELOOP, a regular file is
\* truncated, a missing file is created in its (existing) directory. One
\* system call: nothing happens between the lookup and the truncation.
openSync(f, nodes, now, abs) ==
    LET r == openLookup(f, abs) IN
    IF r.errno = "" THEN
         IF f[r.path].kind = "link" THEN [errno |-> "ELOOP", fs |-> f, inodes |-> nodes, ino |-> 0]
         ELSE IF f[r.path].kind = "dir" THEN [errno |-> "EISDIR", fs |-> f, inodes |-> nodes, ino |-> 0]
         ELSE [errno |-> "", fs |-> f,
               inodes |-> [nodes EXCEPT ![f[r.path].ino] = [content |-> <<>>, mtime |-> now, size |-> 0]],
               ino |-> f[r.path].ino]
    ELSE IF r.errno = "ENOENT" /\ r.path \notin DOMAIN f THEN
         [errno |-> "",
          fs |-> [q \in DOMAIN f \cup {r.path} |->
                    IF q = r.path THEN FileEntry(Len(nodes) + 1) ELSE f[q]],
          inodes |-> Append(nodes, [content |-> <<>>, mtime |-> now, size |-> 0]),
          ino |-> Len(nodes) + 1]
    ELSE [errno |-> IF r.errno = "ENOENT-DIR" THEN "ENOENT" ELSE r.errno,
          fs |-> f, inodes |-> nodes, ino |-> 0]

\* fs.readFileSync(p, "utf8"): every component is followed.
readFileErrno(f, abs) ==
    LET r == Follow(f, abs) IN
    IF r.errno = "ENOENT-DIR" THEN "ENOENT"
    ELSE IF r.errno # "" THEN r.errno
    ELSE IF f[r.path].kind = "dir" THEN "EISDIR"
    ELSE ""
readFileSync(f, nodes, abs) == nodes[f[Follow(f, abs).path].ino].content

\* ------------------------------------------------------------------------
\* The names of the model's filesystem and its initial tree
\* ------------------------------------------------------------------------

nNotes == <<"n">>
nLinkedDir == <<"l">>
nDotDir == <<".", "g">>
nVault == <<"v">>
nOutside == <<"o">>
nNote == <<"a", ".", "m", "d">>
nUpper == <<"B", ".", "M", "D">>
nLinkOut == <<"k", ".", "m", "d">>
nLinkIn == <<"j", ".", "m", "d">>
nSecret == <<"s", ".", "m", "d">>
nScript == <<"x", ".", "j", "s">>
nMakefile == <<"M">>

\* The order in which a directory's entries are enumerated (readdir order).
Names == << nUpper, nMakefile, nNote, nLinkIn, nLinkOut, nLinkedDir, nNotes,
            nOutside, nSecret, nVault, nScript, nDotDir >>

\* The sandbox root given at startup (already canonical) and a directory
\* outside it.
VaultDir == AbsPath(<<nVault>>)
OutsideDir == AbsPath(<<nOutside>>)
SecretFile == AbsPath(<<nOutside, nSecret>>)

\* File contents are sequences of lines.
cOld == << <<"-", " ", "[", " ", "]", " ", "o">> >>
cSecret == << <<"s">> >>
cHidden == << <<"h">> >>
cNew == << <<"w">> >>
cAlt == << <<"-", " ", "[", " ", "]", " ", "t">>, <<"-", " ", "[", "x", "]", " ", "d">>,
           <<"-", " ", "[", " ", "]">>, <<" ", "-", " ", "[", " ", "]", " ", "u", " ">> >>
Contents == {cNew, cAlt}

InitFs ==
    LET entries ==
        { <<AbsPath(<<>>), DirEntry>>,
          <<VaultDir, DirEntry>>,
          <<AbsPath(<<nVault, nNotes>>), DirEntry>>,
          <<AbsPath(<<nVault, nNotes, nNote>>), FileEntry(1)>>,
          <<AbsPath(<<nVault, nUpper>>), FileEntry(2)>>,
          <<AbsPath(<<nVault, nDotDir>>), DirEntry>>,
          <<AbsPath(<<nVault, nDotDir, nNote>>), FileEntry(3)>>,
          <<AbsPath(<<nVault, nLinkOut>>), LinkEntry(SecretFile)>>,
          <<AbsPath(<<nVault, nLinkIn>>), LinkEntry(AbsPath(<<nVault, nNotes, nNote>>))>>,
          <<AbsPath(<<nVault, nLinkedDir>>), LinkEntry(OutsideDir)>>,
          <<OutsideDir, DirEntry>>,
          <<SecretFile, FileEntry(4)>> }
    IN  [p \in {e[1] : e \in entries} |-> (CHOOSE e \in entries : e[1] = p)[2]]

\* The size in bytes of a file written from a string of one-byte
\* characters: its lines and the newlines between them.
RECURSIVE byteLength(_)
byteLength(content) ==
    IF Len(content) = 0 THEN 0
    ELSE IF Len(content) = 1 THEN Len(Head(content))
    ELSE Len(Head(content)) + 1 + byteLength(Tail(content))

\* const MAX_READ_SIZE = 10 * 1024 * 1024
MAX_READ_SIZE == 10 * 1024 * 1024
getMaxReadSize == MAX_READ_SIZE

\* Each inode holds the lines of its file, its modification time and its
\* size in bytes (st_size). The second file is one byte larger than the
\* read ceiling: its content stands for the lines at its head, the rest of
\* its bytes is not spelled out.
InitInodes ==
    << [content |-> cOld, mtime |-> 1, size |-> byteLength(cOld)],
       [content |-> cOld, mtime |-> 2, size |-> MAX_READ_SIZE + 1],
       [content |-> cHidden, mtime |-> 3, size |-> byteLength(cHidden)],
       [content |-> cSecret, mtime |-> 4, size |-> byteLength(cSecret)] >>

\* ------------------------------------------------------------------------
\* read.ts: the enumerator
\* ------------------------------------------------------------------------

EndsWith(s, suf) ==
    /\ Len(suf) <= Len(s)
    /\ \A i \in 1..Len(suf) : s[Len(s) - Len(suf) + i] = suf[i]

\* glob.sync("**/*" + suffix, {cwd, nodir: true, dot: false, follow: false}):
\* the relative paths, in enumeration order, of the entries below `dir` that
\* are not directories. A name starting with "." is neither matched nor
\* descended into; a symbolic link is matched (lstat does not call it a
\* directory) but never descended into.
RECURSIVE GlobDir(_, _, _, _, _)
GlobDir(f, dir, rel, i, suffix) ==
    IF i > Len(Names) THEN <<>>
    ELSE LET name == Names[i]
             p    == AbsPath(Append(dir, name))
             rest == GlobDir(f, dir, rel, i + 1, suffix)
         IN  IF p \notin DOMAIN f \/ StartsWith(name, <<DOT>>) THEN rest
             ELSE IF f[p].kind = "dir"
                  THEN GlobDir(f, Append(dir, name), Append(rel, name), 1, suffix) \o rest
             ELSE IF EndsWith(name, suffix)
                  THEN <<Join(Append(rel, name))>> \o rest
             ELSE rest

globSync(f, cwd, suffix) ==
    LET r == Follow(f, cwd) IN
    IF r.errno # "" \/ f[r.path].kind # "dir" THEN <<>>
    ELSE GlobDir(f, AbsSegs(r.path), <<>>, 1, suffix)

\* A filter that keeps every entry.
notSymlinkUnfiltered(f, dirPath, file) == TRUE

\* The filter of getAllFilenames and findOpenTodos: an entry that lstat
\* reports as a symbolic link is dropped.
notSymlink(f, dirPath, file) == ~isSymbolicLink(f, PathJoin(dirPath, file))

\* lstatSync(path.join(dirPath, file)).mtime
mtimeOf(f, nodes, dirPath, file) ==
    LET e == f[NoFollow(f, PathJoin(dirPath, file)).path] IN
    IF e.kind = "file" THEN nodes[e.ino].mtime ELSE 0

\* Array.prototype.sort with (a, b) => b.mtime - a.mtime: stable, most
\* recent first.
RECURSIVE InsertByMtime(_, _)
InsertByMtime(sorted, x) ==
    IF Len(sorted) = 0 THEN <<x>>
    ELSE IF Head(sorted).mtime >= x.mtime
         THEN <<Head(sorted)>> \o InsertByMtime(Tail(sorted), x)
         ELSE <<x>> \o sorted

RECURSIVE SortByMtime(_, _)
SortByMtime(seq, acc) ==
    IF Len(seq) = 0 THEN acc
    ELSE SortByMtime(Tail(seq), InsertByMtime(acc, Head(seq)))

\* An inventory left in the order of enumeration.
getAllFilenamesUnsorted(f, nodes, dirPath) ==
    LET files == globSync(f, dirPath, <<>>)
        Keep(file) == notSymlink(f, dirPath, file)
    IN  SelectSeq(files, Keep)

\* getAllFilenames: enumerate, drop the links, sort by mtime, keep the paths.
getAllFilenames(f, nodes, dirPath) ==
    LET files == globSync(f, dirPath, <<>>)
        Keep(file) == notSymlink(f, dirPath, file)
        kept == SelectSeq(files, Keep)
        stamped == [i \in 1..Len(kept) |->
                      [path |-> kept[i], mtime |-> mtimeOf(f, nodes, dirPath, kept[i])]]
        sorted == SortByMtime(stamped, <<>>)
    IN  [i \in 1..Len(sorted) |-> sorted[i].path]

Range(seq) == {seq[i] : i \in 1..Len(seq)}

\* ------------------------------------------------------------------------
\* The server process
\* ------------------------------------------------------------------------

\* vaultPath: the root validateVaultPath returned at startup.
\* pc:        where the running handler stands ("idle" between requests).
\* req:       the request being served.
\* loc:       the locals of updateFileContent.handler.
\* result:    what the handler gave back: a returned text or a thrown Error.
\* pre:       the filesystem as it was when the request arrived.
\* writes:    the number of write-file requests served so far.
\* ext:       the number of steps the external process has taken.
\* probe:     the arguments and verdict of a validator applied on its own.
VARIABLES vaultPath, pc, req, loc, result, pre, writes, ext, probe

vars == <<fs, inodes, fds, clock, vaultPath, pc, req, loc, result, pre, writes,
          ext, probe>>

\* The number of write-file requests of one run.
MaxWrites == 1

\* Candidate paths: the "/"-joined sequences of one or two segments, and
\* some of three to five.
sDotDot == <<DOT, DOT>>
sEmpty == <<>>
sNul == <<NUL, ".", "m", "d">>

\* Segments a candidate path may put before its last one, and last segments.
DirSegs == { nNotes, nLinkedDir, nDotDir, sDotDot, sEmpty, nUpper, sNul }
LastSegs == { nNote, nUpper, nLinkOut, nLinkIn, nLinkedDir, nScript, nMakefile,
              nDotDir, sDotDot, sEmpty, nNotes }

DeepPaths ==
    { <<sEmpty, nVault, nNotes, nNote>>, <<sEmpty, nOutside, nSecret>>,
      <<sEmpty, nVault, nVault, nNote>>,
      <<nNotes, sEmpty, nNote>>,
      <<nNotes, nNotes, nNote>>, <<nNotes, nDotDir, nNote>>,
      <<nNotes, sDotDot, nNote>>, <<nNotes, nNotes, nDotDir>>,
      <<nLinkedDir, nNotes, nNote>>, <<nNotes, nLinkedDir, nNote>>,
      <<nLinkedDir, nSecret, nNote>>, <<nLinkedDir, nSecret, nNotes, nNote>>,
      <<nLinkIn, nNotes, nNote>>,
      <<nNotes, sDotDot, sDotDot, nOutside, nSecret>>,
      \* eleven segments: too deep and outside the root; too deep and
      \* without an extension
      <<sEmpty, nOutside, nNotes, nNotes, nNotes, nNotes, nNotes, nNotes, nNotes,
        nNotes, nNote>>,
      <<nNotes, nNotes, nNotes, nNotes, nNotes, nNotes, nNotes, nNotes, nNotes,
        nNotes, nMakefile>> }

CandidatePaths ==
    { Join(<<a>>) : a \in DirSegs \cup LastSegs } \cup
    { Join(<<a, b>>) : a \in DirSegs, b \in LastSegs } \cup
    { Join(p) : p \in DeepPaths }

NoReq == [op |-> "none", filePath |-> <<>>, content |-> <<>>, names |-> <<>>]
NoLoc == [fullPath |-> <<>>, fileExists |-> FALSE, current |-> <<>>, fd |-> 0,
          pending |-> NoError, injected |-> FALSE]
\* A handler's outcome: the text it returned (with the Error its catch
\* block turned into that text, if any), or the Error that left it uncaught. `files` are the inventory entries the text lists (list-files)
\* or the files whose content was read (read-files, scan-todos); `items` are
\* the blocks of the text (one per file read, not-found marker or TODO).
NoResult == [kind |-> "none", text |-> TxtNone, files |-> <<>>, items |-> <<>>, error |-> NoError]

Returned(t) == [NoResult EXCEPT !.kind = "return", !.text = t]
Caught(t, e) == [NoResult EXCEPT !.kind = "return", !.text = t, !.error = e]
ReturnedFiles(t, fl, it) == [NoResult EXCEPT !.kind = "return", !.text = t, !.files = fl, !.items = it]
Thrown(e) == [NoResult EXCEPT !.kind = "throw", !.error = e]

Snapshot == [fs |-> fs, inodes |-> inodes, fds |-> fds]

NoProbe == [fullPath |-> <<>>, resolvedVault |-> <<>>, verdict |-> "none"]

Init ==
    /\ fs = InitFs
    /\ inodes = InitInodes
    /\ fds = {}
    /\ clock = 4
    /\ vaultPath = VaultDir
    /\ pc = "idle"
    /\ req = NoReq
    /\ loc = NoLoc
    /\ result = NoResult
    /\ pre = [fs |-> InitFs, inodes |-> InitInodes, fds |-> {}]
    /\ writes = 0
    /\ ext = 0
    /\ probe = NoProbe

\* index.ts getVaultPath: throws when the root is unset.
getVaultPath(v) == IF v = <<>> THEN Err(MsgNotConfigured, <<>>) ELSE NoError

\* A catch block that echoes every message.
CatchWriteLeaky(e) ==
    IF e.code = "ELOOP" THEN TxtSymlink
    ELSE Text("Error updating file: ", e.msg, e.arg)

\* A catch block without the ELOOP case.
CatchWriteNoEloop(e) ==
    IF e.code = "" THEN TxtError(e) ELSE TxtGeneric

\* The catch block of updateFileContent.handler: the text returned for a
\* thrown Error.
CatchWrite(e) ==
    IF e.code = "ELOOP" THEN TxtSymlink
    ELSE IF \/ (e.msg = MsgNullBytes /\ e.arg = <<>>)
            \/ (e.msg = MsgEscapes /\ e.arg = <<>>)
            \/ (e.msg = MsgDotPath /\ e.arg = <<>>)
            \/ (e.msg = MsgSymlinkedDir /\ e.arg = <<>>)
            \/ e.msg = MsgExtension
            \/ e.msg \in {MsgExceedsLength, MsgExceedsDepth}
         THEN TxtError(e)
    ELSE TxtGeneric

\* The checks with the extension tested before the dot segments.
ValidateWriteExtensionFirst(v, filePath) ==
    LET resolvedVault == PathResolve(v, <<>>)
        fullPath == PathResolve(resolvedVault, filePath)
    IN  FirstError(<< getVaultPath(v),
                      assertNoNullBytes(filePath),
                      assertAllowedExtension(filePath),
                      assertNoDotPaths(filePath),
                      assertPathLimits(filePath),
                      assertInsideVault(fullPath, resolvedVault) >>)

\* The checks the handler runs before it touches the filesystem, in order.
ValidateWrite(v, filePath) ==
    LET resolvedVault == PathResolve(v, <<>>)
        fullPath == PathResolve(resolvedVault, filePath)
    IN  FirstError(<< getVaultPath(v),
                      assertNoNullBytes(filePath),
                      assertNoDotPaths(filePath),
                      assertAllowedExtension(filePath),
                      assertPathLimits(filePath),
                      assertInsideVault(fullPath, resolvedVault) >>)

\* The handler leaves through its catch block with Error e.
Fail(e) ==
    /\ result' = Caught(CatchWrite(e), e)
    /\ pc' = "done"

\* A write-file request arrives; the handler runs its lexical checks.
CallWrite(filePath, content) ==
    /\ pc = "idle"
    /\ writes < MaxWrites
    /\ writes' = writes + 1
    /\ req' = [op |-> "write", filePath |-> filePath, content |-> content, names |-> <<>>]
    /\ pre' = Snapshot
    /\ LET e == ValidateWrite(vaultPath, filePath) IN
       IF e # NoError
       THEN /\ Fail(e)
            /\ loc' = NoLoc
       ELSE /\ pc' = "list"
            /\ loc' = [NoLoc EXCEPT !.fullPath =
                          PathResolve(PathResolve(vaultPath, <<>>), filePath)]
            /\ result' = NoResult
    /\ UNCHANGED <<fs, inodes, fds, clock, vaultPath, ext, probe>>

\* const allFiles = getAllFilenames(vaultPath); fileExists = allFiles.includes(filePath)
WriteList ==
    /\ pc = "list"
    /\ \/ /\ loc' = [loc EXCEPT !.fileExists =
                        req.filePath \in Range(getAllFilenames(fs, inodes, vaultPath))]
          /\ pc' = "mkdir"
          /\ UNCHANGED result
       \/ /\ Fail(NativeError("EACCES", vaultPath))
          /\ loc' = [loc EXCEPT !.injected = TRUE]
    /\ UNCHANGED <<fs, inodes, fds, clock, vaultPath, req, pre, writes, ext, probe>>

\* if (!fs.existsSync(dirPath)) fs.mkdirSync(dirPath, {recursive: true})
WriteMkdir ==
    LET dirPath == Dirname(loc.fullPath) IN
    /\ pc = "mkdir"
    /\ IF existsSync(fs, dirPath)
       THEN /\ pc' = "walk"
            /\ loc' = [loc EXCEPT !.current = Dirname(loc.fullPath)]
            /\ UNCHANGED <<fs, result>>
       ELSE \/ LET r == mkdirSync(fs, dirPath) IN
               /\ fs' = r.fs
               /\ IF r.errno # ""
                  THEN /\ Fail(NativeError(r.errno, dirPath))
                       /\ UNCHANGED loc
                  ELSE /\ pc' = "walk"
                       /\ loc' = [loc EXCEPT !.current = Dirname(loc.fullPath)]
                       /\ UNCHANGED result
            \/ /\ Fail(NativeError("EACCES", dirPath))
               /\ loc' = [loc EXCEPT !.injected = TRUE]
               /\ UNCHANGED fs
    /\ UNCHANGED <<inodes, fds, clock, vaultPath, req, pre, writes, ext, probe>>

\* A walk that examines nothing.
symlinkedParentSkipped(f, current) == FALSE

\* The test of assertNoSymlinkedParents:
\* existsSync(current) && lstatSync(current).isSymbolicLink()
symlinkedParent(f, current) == existsSync(f, current) /\ isSymbolicLink(f, current)

\* One turn of the loop of assertNoSymlinkedParents.
WriteWalk ==
    LET resolvedVault == PathResolve(vaultPath, <<>>)
        current == loc.current
    IN
    /\ pc = "walk"
    /\ IF current # resolvedVault /\ StartsWith(current, resolvedVault)
       THEN IF symlinkedParent(fs, current)
            THEN /\ Fail(Err(MsgSymlinkedDir, <<>>))
                 /\ UNCHANGED loc
            ELSE /\ loc' = [loc EXCEPT !.current = Dirname(current)]
                 /\ UNCHANGED <<pc, result>>
       ELSE /\ pc' = "open"
            /\ UNCHANGED <<loc, result>>
    /\ UNCHANGED <<fs, inodes, fds, clock, vaultPath, req, pre, writes, ext, probe>>

\* The smallest descriptor number not in use.
FreeFd == CHOOSE n \in 3..(3 + Cardinality(fds)) : \A d \in fds : d.fd # n

\* const fd = fs.openSync(fullPath, flags, 0o644)
WriteOpen ==
    /\ pc = "open"
    /\ \/ LET r == openSync(fs, inodes, clock + 1, loc.fullPath) IN
          IF r.errno # ""
          THEN /\ Fail(NativeError(r.errno, loc.fullPath))
               /\ UNCHANGED <<fs, inodes, fds, clock, loc>>
          ELSE /\ fs' = r.fs
               /\ inodes' = r.inodes
               /\ clock' = clock + 1
               /\ fds' = fds \cup {[fd |-> FreeFd, ino |-> r.ino]}
               /\ loc' = [loc EXCEPT !.fd = FreeFd]
               /\ pc' = "write"
               /\ UNCHANGED result
       \/ /\ Fail(NativeError("EACCES", loc.fullPath))
          /\ loc' = [loc EXCEPT !.injected = TRUE]
          /\ UNCHANGED <<fs, inodes, fds, clock>>
    /\ UNCHANGED <<vaultPath, req, pre, writes, ext, probe>>

\* The inode an open descriptor names.
InoOf(fd) == (CHOOSE d \in fds : d.fd = fd).ino

\* try { fs.writeFileSync(fd, content, "utf8") } ...
WriteData ==
    /\ pc = "write"
    /\ \/ /\ inodes' = [inodes EXCEPT ![InoOf(loc.fd)] =
                           [content |-> req.content, mtime |-> clock, size |-> byteLength(req.content)]]
          /\ UNCHANGED loc
       \/ /\ loc' = [loc EXCEPT !.pending = NativeError("ENOSPC", <<>>),
                                !.injected = TRUE]
          /\ UNCHANGED inodes
    /\ pc' = "close"
    /\ UNCHANGED <<fs, fds, clock, vaultPath, req, result, pre, writes, ext, probe>>

\* A handler without the finally block: closeSync runs only after a write
\* that did not throw.
WriteCloseNoFinally ==
    /\ pc = "close"
    /\ \/ /\ IF loc.pending # NoError
             THEN /\ Fail(loc.pending)
                  /\ UNCHANGED <<fds, loc>>
             ELSE /\ fds' = {d \in fds : d.fd # loc.fd}
                  /\ result' = Returned(IF loc.fileExists
                                        THEN TxtUpdated(req.filePath)
                                        ELSE TxtCreated(req.filePath))
                  /\ pc' = "done"
                  /\ loc' = [loc EXCEPT !.fd = 0]
       \/ /\ Fail(NativeError("EIO", <<>>))
          /\ fds' \in {fds, {d \in fds : d.fd # loc.fd}}
          /\ loc' = [loc EXCEPT !.injected = TRUE]
    /\ UNCHANGED <<fs, inodes, clock, vaultPath, req, pre, writes, ext, probe>>

\* ... finally { fs.closeSync(fd) }, then the return or the catch block.
WriteClose ==
    /\ pc = "close"
    /\ \/ /\ fds' = {d \in fds : d.fd # loc.fd}
          /\ IF loc.pending # NoError
             THEN Fail(loc.pending)
             ELSE /\ result' = Returned(IF loc.fileExists
                                        THEN TxtUpdated(req.filePath)
                                        ELSE TxtCreated(req.filePath))
                  /\ pc' = "done"
          /\ loc' = [loc EXCEPT !.fd = 0]
       \/ /\ Fail(NativeError("EIO", <<>>))
          /\ fds' \in {fds, {d \in fds : d.fd # loc.fd}}
          /\ loc' = [loc EXCEPT !.injected = TRUE]
    /\ UNCHANGED <<fs, inodes, clock, vaultPath, req, pre, writes, ext, probe>>

\* The result goes back to the transport; the server waits for a request.
Return ==
    /\ pc = "done"
    /\ pc' = "idle"
    /\ req' = NoReq
    /\ loc' = NoLoc
    /\ result' = NoResult
    /\ pre' = Snapshot
    /\ UNCHANGED <<fs, inodes, fds, clock, vaultPath, writes, ext, probe>>

\* ------------------------------------------------------------------------
\* read.ts: the three read handlers
\* ------------------------------------------------------------------------

TxtAllFiles == Text("", "# All markdown files in vault", <<>>)
TxtNoMatch == Text("", "No matching files found in the vault.", <<>>)
TxtFiles == Text("", "# File: ", <<>>)
TxtNoTodos == Text("", "No open TODOs found in the vault.", <<>>)
\* `# Open TODOs in vault (${todos.length} items)`
TxtTodos(count) == Text("", "# Open TODOs in vault", <<count>>)

\* getAllFilenamesTool.handler. lstatSync throws when an entry glob listed is
\* gone by the time it is examined; nothing in the handler catches it.
ListFiles ==
    /\ pc = "idle"
    /\ req' = [NoReq EXCEPT !.op = "list"]
    /\ pc' = "done"
    /\ pre' = Snapshot
    /\ IF vaultPath = <<>>
       THEN result' = Returned(TxtNoVault)
       ELSE \/ result' = ReturnedFiles(TxtAllFiles, getAllFilenames(fs, inodes, vaultPath), <<>>)
            \/ /\ globSync(fs, vaultPath, <<>>) # <<>>
               /\ result' = Thrown(NativeError("ENOENT", vaultPath))
    /\ UNCHANGED <<fs, inodes, fds, clock, vaultPath, loc, writes, ext, probe>>

\* String.prototype.includes.
Contains(s, sub) ==
    \E i \in 0..(Len(s) - Len(sub)) : SubSeq(s, i + 1, i + Len(sub)) = sub

\* A lookup whose third stage searches the whole relative path.
matchesOfWholePath(allFiles, targetName) ==
    LET lowerTargetName == ToLowerCase(targetName)
        mapped == {i \in 1..Len(allFiles) : ToLowerCase(allFiles[i]) = lowerTargetName}
        Partial(file) == Contains(ToLowerCase(file), lowerTargetName)
    IN  IF targetName \in Range(allFiles) THEN <<targetName>>
        ELSE IF mapped # {} THEN <<allFiles[CHOOSE i \in mapped : \A j \in mapped : j <= i]>>
        ELSE SelectSeq(allFiles, Partial)

\* readFilesByName: the files chosen for one requested name; <<>> when the
\* name matches nothing.
matchesOf(allFiles, targetName) ==
    LET lowerTargetName == ToLowerCase(targetName)
        \* fileMap: a later inventory entry replaces an earlier one with the
        \* same lower-case path
        mapped == {i \in 1..Len(allFiles) : ToLowerCase(allFiles[i]) = lowerTargetName}
        Partial(file) == Contains(ToLowerCase(Basename(file)), lowerTargetName)
    IN  IF targetName \in Range(allFiles) THEN <<targetName>>
        ELSE IF mapped # {} THEN <<allFiles[CHOOSE i \in mapped : \A j \in mapped : j <= i]>>
        ELSE SelectSeq(allFiles, Partial)

\* A lookup that reads the name as a path below the root when a file can
\* be read there, and consults the inventory otherwise.
blocksOfPathFirst(f, nodes, rootPath, allFiles, targetName) ==
    LET chosen == matchesOf(allFiles, targetName) IN
    IF targetName # <<>> /\ readFileErrno(f, PathJoin(rootPath, targetName)) = ""
    THEN << [path |-> targetName, found |-> TRUE,
             content |-> readFileSync(f, nodes, PathJoin(rootPath, targetName))] >>
    ELSE IF Len(chosen) = 0
    THEN << [path |-> targetName, found |-> FALSE, content |-> <<>>] >>
    ELSE [i \in 1..Len(chosen) |->
            [path |-> chosen[i], found |-> TRUE,
             content |-> readFileSync(f, nodes, PathJoin(rootPath, chosen[i]))]]

\* A lookup that reports nothing for a name without a match.
blocksOfFoundOnly(f, nodes, rootPath, allFiles, targetName) ==
    LET chosen == matchesOf(allFiles, targetName) IN
    [i \in 1..Len(chosen) |->
        [path |-> chosen[i], found |-> TRUE,
         content |-> readFileSync(f, nodes, PathJoin(rootPath, chosen[i]))]]

\* The blocks readFilesByName returns for one name: "# File: <path>" and
\* the content of each chosen file, or the not-found marker.
blocksOf(f, nodes, rootPath, allFiles, targetName) ==
    LET chosen == matchesOf(allFiles, targetName) IN
    IF Len(chosen) = 0
    THEN << [path |-> targetName, found |-> FALSE, content |-> <<>>] >>
    ELSE [i \in 1..Len(chosen) |->
            [path |-> chosen[i], found |-> TRUE,
             content |-> readFileSync(f, nodes, PathJoin(rootPath, chosen[i]))]]

RECURSIVE FlatMapBlocks(_, _, _, _, _)
FlatMapBlocks(f, nodes, rootPath, allFiles, targetFilenames) ==
    IF Len(targetFilenames) = 0 THEN <<>>
    ELSE blocksOf(f, nodes, rootPath, allFiles, Head(targetFilenames))
         \o FlatMapBlocks(f, nodes, rootPath, allFiles, Tail(targetFilenames))

readFilesByName(f, nodes, rootPath, targetFilenames) ==
    FlatMapBlocks(f, nodes, rootPath, getAllFilenames(f, nodes, rootPath), targetFilenames)

\* The paths of the blocks that carry a file's content.
FilesRead(blocks) ==
    LET got == SelectSeq(blocks, LAMBDA b : b.found) IN
    [i \in 1..Len(got) |-> got[i].path]

\* The calls readAndFormatFile (and the loop body of findOpenTodos) makes
\* on the way to the content of the files it reads, in order: for each
\* file, fs.readFileSync on path.join(rootPath, filePath), and nothing
\* before it.
CallOf(fn, path) == [fn |-> fn, path |-> path]
readCalls(rootPath, files) ==
    [i \in 1..Len(files) |-> CallOf("readFileSync", PathJoin(rootPath, files[i]))]

\* The name lists of the read-files requests.
sUpDir == <<DOT, DOT, SEP>>
ReadNames ==
    { Join(<<nNotes, nNote>>), ToLowerCase(nUpper), <<"a">>, <<"z">>, <<>>,
      nLinkOut, Join(<<nDotDir, nNote>>), Join(<<sDotDot, nOutside, nSecret>>),
      SecretFile, Join(<<nLinkedDir, nSecret>>) }
ReadNameLists ==
    { <<>> } \cup { <<a>> : a \in ReadNames } \cup
    { << <<"z">>, Join(<<nNotes, nNote>>) >>, << ToLowerCase(nUpper), <<"z">> >> }

\* readFiles.handler. readFileSync throws when a listed file cannot be read
\* (no permission, or gone since it was listed); nothing catches it.
ReadFiles(filenames) ==
    /\ pc = "idle"
    /\ req' = [NoReq EXCEPT !.op = "read", !.names = filenames]
    /\ pc' = "done"
    /\ pre' = Snapshot
    /\ LET fileContents == readFilesByName(fs, inodes, vaultPath, filenames) IN
       \/ result' = IF Len(fileContents) = 0
                    THEN Returned(TxtNoMatch)
                    ELSE ReturnedFiles(TxtFiles, FilesRead(fileContents), fileContents)
       \/ /\ Len(FilesRead(fileContents)) > 0
          /\ result' = Thrown(NativeError("EACCES",
                                  PathJoin(vaultPath, FilesRead(fileContents)[1])))
    /\ UNCHANGED <<fs, inodes, fds, clock, vaultPath, loc, writes, ext, probe>>

\* String.prototype.trim for the blank character.
RECURSIVE TrimLeft(_)
TrimLeft(s) == IF Len(s) > 0 /\ Head(s) = " " THEN TrimLeft(Tail(s)) ELSE s
RECURSIVE TrimRight(_)
TrimRight(s) ==
    IF Len(s) > 0 /\ s[Len(s)] = " " THEN TrimRight(SubSeq(s, 1, Len(s) - 1)) ELSE s
Trim(s) == TrimRight(TrimLeft(s))

\* A scan that takes a box with any mark in it.
isOpenTodoAnyMark(line) ==
    \E i \in 0..(Len(line) - 7) :
        /\ SubSeq(line, i + 1, i + 3) = <<"-", " ", "[">>
        /\ SubSeq(line, i + 5, i + 6) = <<"]", " ">>

\* line.includes("- [ ]") && /- \[ \] .+/.test(line)
isOpenTodo(line) ==
    /\ Contains(line, <<"-", " ", "[", " ", "]">>)
    /\ \E i \in 0..(Len(line) - 7) :
          SubSeq(line, i + 1, i + 6) = <<"-", " ", "[", " ", "]", " ">>

\* The markdown files findOpenTodos reads, in the order it reads them.
todoFiles(f, rootPath) ==
    LET Keep(file) == notSymlink(f, rootPath, file) IN
    SelectSeq(globSync(f, rootPath, <<".", "m", "d">>), Keep)

\* The records one file contributes: "- **<path>**: <trimmed line>".
todosOf(f, nodes, rootPath, filePath) ==
    LET lines == readFileSync(f, nodes, PathJoin(rootPath, filePath))
        open == SelectSeq(lines, isOpenTodo)
    IN  [i \in 1..Len(open) |->
            [path |-> filePath, found |-> TRUE, content |-> <<Trim(open[i])>>]]

RECURSIVE TodosFrom(_, _, _, _)
TodosFrom(f, nodes, rootPath, mdFiles) ==
    IF Len(mdFiles) = 0 THEN <<>>
    ELSE todosOf(f, nodes, rootPath, Head(mdFiles))
         \o TodosFrom(f, nodes, rootPath, Tail(mdFiles))

findOpenTodos(f, nodes, rootPath) == TodosFrom(f, nodes, rootPath, todoFiles(f, rootPath))

\* getOpenTodos.handler; readFileSync and lstatSync throw as above.
ScanTodos ==
    /\ pc = "idle"
    /\ req' = [NoReq EXCEPT !.op = "todos"]
    /\ pc' = "done"
    /\ pre' = Snapshot
    /\ IF vaultPath = <<>>
       THEN result' = Returned(TxtNoVault)
       ELSE LET todos == findOpenTodos(fs, inodes, vaultPath) IN
            \/ result' = IF Len(todos) = 0
                         THEN ReturnedFiles(TxtNoTodos, todoFiles(fs, vaultPath), <<>>)
                         ELSE ReturnedFiles(TxtTodos(Len(todos)), todoFiles(fs, vaultPath), todos)
            \/ /\ Len(todoFiles(fs, vaultPath)) > 0
               /\ result' = Thrown(NativeError("EACCES",
                                       PathJoin(vaultPath, todoFiles(fs, vaultPath)[1])))
    /\ UNCHANGED <<fs, inodes, fds, clock, vaultPath, loc, writes, ext, probe>>

WriteFile ==
    \/ \E filePath \in CandidatePaths, content \in Contents : CallWrite(filePath, content)
    \/ WriteList
    \/ WriteMkdir
    \/ WriteWalk
    \/ WriteOpen
    \/ WriteData
    \/ WriteClose

\* ------------------------------------------------------------------------
\* The external process
\* ------------------------------------------------------------------------

\* The number of steps the external process takes in one run.
MaxExt == 1

\* The files an external symbolic link may point to.
ExtTargets == { SecretFile, AbsPath(<<nVault, nUpper>>) }

\* While a write-file request is being served, another process replaces
\* the last component of its target by a symbolic link (unlink + symlink,
\* or rename over it). A regular file that was there loses its name; its
\* inode lives on while a descriptor names it.
ExtReplaceFinal(target) ==
    LET r == NoFollow(fs, loc.fullPath) IN
    /\ pc \in {"list", "mkdir", "walk", "open", "write", "close"}
    /\ ext < MaxExt
    /\ r.errno \in {"", "ENOENT"}
    /\ r.errno = "" => fs[r.path].kind # "dir"
    /\ r.path # target
    /\ fs' = [q \in DOMAIN fs \cup {r.path} |->
                IF q = r.path THEN LinkEntry(target) ELSE fs[q]]
    /\ ext' = ext + 1
    /\ UNCHANGED <<inodes, fds, clock, vaultPath, pc, req, loc, result, pre, writes, probe>>

\* The write-file requests of the runs with an external process.
RacePaths ==
    { Join(<<nNote>>), Join(<<nUpper>>), Join(<<nLinkOut>>), Join(<<nNotes, nNote>>),
      Join(<<nNotes, nNotes, nNote>>), Join(<<nLinkedDir, nNote>>) }

Next ==
    \/ WriteFile
    \/ ListFiles
    \/ \E filenames \in ReadNameLists : ReadFiles(filenames)
    \/ ScanTodos
    \/ Return

Spec == Init /\ [][Next]_vars

\* The server with a process that races its writes.
NextRace ==
    \/ \E filePath \in RacePaths : CallWrite(filePath, cNew)
    \/ WriteList
    \/ WriteMkdir
    \/ WriteWalk
    \/ WriteOpen
    \/ WriteData
    \/ WriteClose
    \/ Return
    \/ \E target \in ExtTargets : ExtReplaceFinal(target)

SpecRace == Init /\ [][NextRace]_vars

\* The directories an external symbolic link may point to.
ExtDirTargets == { OutsideDir, VaultDir }

\* While a write-file request is being served, another process replaces a
\* directory between the target and the root by a symbolic link to a
\* directory (rename the directory away, symlink in its place). What the
\* directory held leaves with it.
ExtReplaceAncestor(target) ==
    LET segs == AbsSegs(loc.fullPath)
        base == Len(AbsSegs(vaultPath))
    IN
    /\ pc \in {"list", "mkdir", "walk", "open", "write", "close"}
    /\ ext < MaxExt
    /\ \E k \in (base + 1)..(Len(segs) - 1) :
          LET a == AbsPath(SubSeq(segs, 1, k)) IN
          /\ a \in DOMAIN fs
          /\ fs[a].kind = "dir"
          /\ fs' = [q \in {q \in DOMAIN fs : ~StartsWith(q, a \o <<SEP>>)} |->
                      IF q = a THEN LinkEntry(target) ELSE fs[q]]
    /\ ext' = ext + 1
    /\ UNCHANGED <<inodes, fds, clock, vaultPath, pc, req, loc, result, pre, writes, probe>>

\* The server with a process that races the directories of its writes.
NextRaceDir ==
    \/ \E filePath \in RacePaths, content \in Contents : CallWrite(filePath, content)
    \/ WriteList
    \/ WriteMkdir
    \/ WriteWalk
    \/ WriteOpen
    \/ WriteData
    \/ WriteClose
    \/ Return
    \/ \E target \in ExtDirTargets : ExtReplaceAncestor(target)

SpecRaceDir == Init /\ [][NextRaceDir]_vars

\* ------------------------------------------------------------------------
\* The handlers called with the root unset
\* ------------------------------------------------------------------------

\* The handlers as the tests call them with an empty root. Startup validation
\* rules this state out in the running server; getVaultPath guards against
\* it all the same. With an empty root glob and path.join work from the
\* process's working directory, here "/".
InitUnset ==
    /\ fs = InitFs
    /\ inodes = InitInodes
    /\ fds = {}
    /\ clock = 4
    /\ vaultPath = <<>>
    /\ pc = "idle"
    /\ req = NoReq
    /\ loc = NoLoc
    /\ result = NoResult
    /\ pre = [fs |-> InitFs, inodes |-> InitInodes, fds |-> {}]
    /\ writes = 0
    /\ ext = 0
    /\ probe = NoProbe

NextUnset ==
    \/ \E filePath \in CandidatePaths, content \in Contents : CallWrite(filePath, content)
    \/ ListFiles
    \/ \E filenames \in ReadNameLists : ReadFiles(filenames)
    \/ ScanTodos
    \/ Return

SpecUnset == InitUnset /\ [][NextUnset]_vars

\* ------------------------------------------------------------------------
\* assertInsideVault on its own
\* ------------------------------------------------------------------------

ProbeRoots == { VaultDir, AbsPath(<<nVault, nNotes>>), OutsideDir }

\* Resolved absolute paths: what path.resolve yields for the candidate
\* paths, and the roots with characters appended.
ProbePaths ==
    { PathResolve(r, c) : r \in ProbeRoots, c \in CandidatePaths } \cup
    { r \o x : r \in ProbeRoots,
               x \in { <<"v">>, <<".", "m", "d">>, <<"v", SEP>> \o nNote, nNote } }

InitContain ==
    /\ fs = InitFs
    /\ inodes = InitInodes
    /\ fds = {}
    /\ clock = 4
    /\ vaultPath = VaultDir
    /\ pc = "probe"
    /\ req = NoReq
    /\ loc = NoLoc
    /\ result = NoResult
    /\ pre = [fs |-> InitFs, inodes |-> InitInodes, fds |-> {}]
    /\ writes = 0
    /\ ext = 0
    /\ probe \in [fullPath : ProbePaths, resolvedVault : ProbeRoots, verdict : {"none"}]

CheckContain ==
    /\ pc = "probe"
    /\ probe.verdict = "none"
    /\ probe' = [probe EXCEPT !.verdict =
                    IF assertInsideVault(probe.fullPath, probe.resolvedVault) = NoError
                    THEN "pass" ELSE "reject"]
    /\ UNCHANGED <<fs, inodes, fds, clock, vaultPath, pc, req, loc, result, pre, writes, ext>>

SpecContain == InitContain /\ [][CheckContain]_vars

\* ------------------------------------------------------------------------
\* readFilesByName's choice of files on its own
\* ------------------------------------------------------------------------

\* The state of a vault served by no handler: the functions below are
\* applied to arguments held in probe.
Resting ==
    /\ fs = InitFs
    /\ inodes = InitInodes
    /\ fds = {}
    /\ clock = 4
    /\ vaultPath = VaultDir
    /\ pc = "probe"
    /\ req = NoReq
    /\ loc = NoLoc
    /\ result = NoResult
    /\ pre = [fs |-> InitFs, inodes |-> InitInodes, fds |-> {}]
    /\ writes = 0
    /\ ext = 0

\* Inventories as getAllFilenames returns them: relative paths, each once.
\* Eight of them, six with an "a" in the base name.
LookupPool ==
    << nNote, Join(<<nNotes, nNote>>), <<"a", "a", ".", "m", "d">>,
       Join(<<nNotes, <<"a", "b", ".", "m", "d">> >>), <<"A", ".", "m", "d">>,
       <<"b", "a", ".", "m", "d">>, Join(<<nNotes, nUpper>>),
       Join(<<nNotes, <<"n", ".", "m", "d">> >>) >>
Inventories ==
    { SubSeq(LookupPool, i, j) : i \in 1..(Len(LookupPool) + 1), j \in 0..Len(LookupPool) }

\* Requested names: an exact path, the same in another case, base-name
\* fragments, a directory name, a name nothing matches, the empty name.
LookupNames ==
    { Join(<<nNotes, nNote>>), <<"N", "/", "A", ".", "M", "D">>, nNote,
      <<"a">>, <<"B">>, nNotes, <<"z">>, <<>> }

InitLookup ==
    /\ Resting
    /\ probe \in [allFiles : Inventories, targetName : LookupNames,
                  chosen : {<<>>}, applied : {FALSE}]

ApplyLookup ==
    /\ pc = "probe"
    /\ ~probe.applied
    /\ probe' = [probe EXCEPT !.chosen = matchesOf(probe.allFiles, probe.targetName),
                              !.applied = TRUE]
    /\ UNCHANGED <<fs, inodes, fds, clock, vaultPath, pc, req, loc, result, pre, writes, ext>>

SpecLookup == InitLookup /\ [][ApplyLookup]_vars

\* ------------------------------------------------------------------------
\* assertPathLimits on its own
\* ------------------------------------------------------------------------

\* "a".repeat(n)
Repeat(c, n) == [i \in 1..n |-> c]

\* A path of `depth` segments and `length` characters: directories "a" and a
\* last segment "aa...a.md" that fills the length.
LimitPath(length, depth) ==
    Join([i \in 1..depth |->
            IF i < depth THEN <<"a">>
            ELSE Repeat("a", length - 2 * (depth - 1) - 3) \o <<".", "m", "d">>])

\* Lengths and depths on both sides of the ceilings.
LimitLengths == {40} \cup 508..516
LimitDepths == 1..12
LimitPaths == { LimitPath(n, k) : n \in LimitLengths, k \in LimitDepths }

InitLimits ==
    /\ Resting
    /\ probe \in [filePath : LimitPaths, limits : {NoError}, validated : {NoError},
                  applied : {FALSE}]

ApplyLimits ==
    /\ pc = "probe"
    /\ ~probe.applied
    /\ probe' = [probe EXCEPT !.limits = assertPathLimits(probe.filePath),
                              !.validated = ValidateWrite(vaultPath, probe.filePath),
                              !.applied = TRUE]
    /\ UNCHANGED <<fs, inodes, fds, clock, vaultPath, pc, req, loc, result, pre, writes, ext>>

SpecLimits == InitLimits /\ [][ApplyLimits]_vars

\* ------------------------------------------------------------------------
\* The write-file input schema on its own
\* ------------------------------------------------------------------------

\* A content string told by what the schema and the write see of it: the
\* number of its characters that take one byte in UTF-8 and the number of
\* those that take two (each of them one UTF-16 code unit).
StringLength(content) == content.narrow + content.wide
Utf8Bytes(content) == content.narrow + 2 * content.wide

\* content: z.string().max(1_000_000): zod compares the string's length.
contentMax == 1000000
schemaAccepts(content) == StringLength(content) <= contentMax

SchemaNarrow == 999996..1000002
SchemaWide == 0..7

InitSchema ==
    /\ Resting
    /\ probe \in [content : [narrow : SchemaNarrow, wide : SchemaWide],
                  accepted : {FALSE}, applied : {FALSE}]

\* The server parses the arguments against the schema before it calls the
\* handler.
ApplySchema ==
    /\ pc = "probe"
    /\ ~probe.applied
    /\ probe' = [probe EXCEPT !.accepted = schemaAccepts(probe.content),
                              !.applied = TRUE]
    /\ UNCHANGED <<fs, inodes, fds, clock, vaultPath, pc, req, loc, result, pre, writes, ext>>

SpecSchema == InitSchema /\ [][ApplySchema]_vars

\* ------------------------------------------------------------------------
\* utils.ts: validateVaultPath, applied at startup to process.argv[2]
\* ------------------------------------------------------------------------

MsgUsage == "Vault path must be provided as a command line argument."
MsgNoSuchPath == "Please provide a path to an existing Obsidian vault"
MsgNotDirectory == "Path must be a directory, not a file"

\* statSync(p).isDirectory() and realpathSync(p): every link is followed.
isDirectory(f, abs) == f[Follow(f, abs).path].kind = "dir"
realpathSync(f, abs) == Follow(f, abs).path

\* The outcome of validateVaultPath: the Error thrown, or the path returned.
Threw(e) == [error |-> e, path |-> <<>>]
Gave(path) == [error |-> NoError, path |-> path]

\* A validation that returns the path as resolved, links and all.
validateVaultPathUnresolved(f, cwd, arg) ==
    IF ~arg.given \/ arg.value = <<>> THEN Threw(Err(MsgUsage, <<>>))
    ELSE LET resolved == PathResolve(cwd, arg.value) IN
         IF ~existsSync(f, resolved) THEN Threw(Err(MsgNoSuchPath, arg.value))
         ELSE IF ~isDirectory(f, resolved) THEN Threw(Err(MsgNotDirectory, arg.value))
         ELSE Gave(resolved)

\* arg is process.argv[2]: not given (undefined), or a string; cwd is the
\* directory p.resolve starts from.
validateVaultPath(f, cwd, arg) ==
    IF ~arg.given \/ arg.value = <<>> THEN Threw(Err(MsgUsage, <<>>))
    ELSE LET resolved == PathResolve(cwd, arg.value) IN
         IF ~existsSync(f, resolved) THEN Threw(Err(MsgNoSuchPath, arg.value))
         ELSE IF ~isDirectory(f, resolved) THEN Threw(Err(MsgNotDirectory, arg.value))
         ELSE Gave(realpathSync(f, resolved))

\* Command-line arguments: none, the empty string, directories, files,
\* links to either, missing paths, relative and unnormalised spellings.
RootArgs ==
    { [given |-> FALSE, value |-> <<>>] } \cup
    { [given |-> TRUE, value |-> v] :
        v \in { <<>>, VaultDir, OutsideDir, <<SEP>>, nVault, nNotes, nLinkedDir,
                <<DOT>>, sDotDot, <<"z">>, nUpper, nLinkOut,
                AbsPath(<<nVault, nNotes>>), AbsPath(<<nVault, nLinkedDir>>),
                AbsPath(<<nVault, nLinkOut>>), AbsPath(<<nVault, nUpper>>),
                AbsPath(<<nVault, nDotDir>>), AbsPath(<<nVault, <<"z">> >>),
                AbsPath(<<nVault, nLinkedDir, nSecret>>),
                AbsPath(<<nVault, nLinkedDir, sDotDot, nVault>>),
                Join(<<nLinkedDir, sDotDot>>), VaultDir \o <<SEP>> } }
Cwds == { <<SEP>>, VaultDir, OutsideDir, AbsPath(<<nVault, nNotes>>) }

InitRoot ==
    /\ Resting
    /\ probe \in [arg : RootArgs, cwd : Cwds, outcome : {Threw(NoError)}, applied : {FALSE}]

ApplyRoot ==
    /\ pc = "probe"
    /\ ~probe.applied
    /\ probe' = [probe EXCEPT !.outcome = validateVaultPath(fs, probe.cwd, probe.arg),
                              !.applied = TRUE]
    /\ UNCHANGED <<fs, inodes, fds, clock, vaultPath, pc, req, loc, result, pre, writes, ext>>

SpecRoot == InitRoot /\ [][ApplyRoot]_vars

\* ------------------------------------------------------------------------
\* Properties
\* ------------------------------------------------------------------------

\* A write-file request has been served and its result is at hand.
WriteDone == pc = "done" /\ req.op = "write"

IsError(t) == t.prefix = "Error: "
IsSuccess(t) == t = TxtUpdated(req.filePath) \/ t = TxtCreated(req.filePath)
TxtOf(m) == Text("Error: ", m, <<>>)

\* The filesystem is as it was when the request arrived.
FsUnchanged == fs = pre.fs /\ inodes = pre.inodes

\* The segments of a candidate path, and properties of them.
HasDotDotSegment(filePath) ==
    \E i \in 1..Len(Split(filePath)) : Split(filePath)[i] = <<DOT, DOT>>
IsAbsolute(filePath) == Len(filePath) > 0 /\ filePath[1] = SEP
DotSegments(filePath) ==
    {i \in 1..Len(Split(filePath)) :
        Len(Split(filePath)[i]) > 0 /\ Split(filePath)[i][1] = DOT}

\* The absolute path a request names, and the directories between it and
\* the root.
FullPathOf(filePath) == PathResolve(PathResolve(vaultPath, <<>>), filePath)
AncestorsOf(fullPath) ==
    LET segs == AbsSegs(fullPath)
        base == Len(AbsSegs(vaultPath))
    IN  {AbsPath(SubSeq(segs, 1, k)) : k \in (base + 1)..(Len(segs) - 1)}

IsLink(f, abs) == NoFollow(f, abs).errno = "" /\ f[NoFollow(f, abs).path].kind = "link"
IsDirThroughLinks(f, abs) == Follow(f, abs).errno = "" /\ f[Follow(f, abs).path].kind = "dir"

\* Nothing exists outside the root that did not exist when the request
\* arrived.
Inside(p) == StartsWith(p, vaultPath \o <<SEP>>)
NothingCreatedOutside ==
    \A p \in DOMAIN fs : ~Inside(p) => p \in DOMAIN pre.fs

\* A native filesystem error other than ELOOP.
IsNative(e) == e.code \notin {"none", "", "ELOOP"}

\* C1 (as claimed): a write-file request whose path has a ".." segment or
\* starts with "/" is rejected and leaves the filesystem, inside and outside
\* the root, as it was. It is taken here for the calls in which no
\* filesystem call fails.
C1_RejectsTraversalAndAbsolute ==
    (WriteDone /\ ~loc.injected
        /\ (HasDotDotSegment(req.filePath) \/ IsAbsolute(req.filePath)))
        => (IsError(result.text) /\ ~IsSuccess(result.text) /\ FsUnchanged)

\* C2 (as claimed): a write-file request whose path has a segment starting
\* with "." is rejected with the dot-prefixed error.
C2_DotSegmentGivesDotError ==
    (WriteDone /\ DotSegments(req.filePath) # {})
        => result.text = TxtOf(MsgDotPath)

\* C2 (amended): a write-file request whose path has a segment starting with
\* ".", at any position, never reports success; it is rejected with the
\* dot-prefixed error, or with the null-byte error when the path also
\* contains a NUL character.
C2_DotSegmentRejected ==
    (WriteDone /\ DotSegments(req.filePath) # {})
        => /\ ~IsSuccess(result.text)
           /\ FsUnchanged
           /\ result.text = IF Includes(req.filePath, NUL)
                            THEN TxtOf(MsgNullBytes)
                            ELSE TxtOf(MsgDotPath)

\* A path of three segments whose middle segment alone starts with "." has
\* been rejected with the dot-prefixed error.
C2_Witness ==
    /\ WriteDone
    /\ Len(Split(req.filePath)) = 3
    /\ DotSegments(req.filePath) = {2}
    /\ ~HasDotDotSegment(req.filePath)
    /\ result.text = TxtOf(MsgDotPath)

\* The request passes the lexical checks and a directory between its target
\* and the root was a symbolic link to a directory when it arrived.
ThroughSymlinkedDir ==
    /\ WriteDone
    /\ ValidateWrite(vaultPath, req.filePath) = NoError
    /\ \E a \in AncestorsOf(FullPathOf(req.filePath)) :
          IsLink(pre.fs, a) /\ IsDirThroughLinks(pre.fs, a)

\* C3 (as claimed): a request that passes the lexical checks and goes
\* through a symlinked directory creates nothing outside the root.
C3_NothingCreatedThroughSymlinkedDir ==
    ThroughSymlinkedDir => NothingCreatedOutside

\* The last component of the request's target was a symbolic link when the
\* request arrived; the inode it led to, if it led to a regular file.
FinalWasLink == IsLink(pre.fs, FullPathOf(req.filePath))
LinkTargetUnchanged ==
    LET r == Follow(pre.fs, FullPathOf(req.filePath)) IN
    (r.errno = "" /\ pre.fs[r.path].kind = "file")
        => inodes[pre.fs[r.path].ino] = pre.inodes[pre.fs[r.path].ino]

\* C4 (as claimed): when the last component of the target is an existing
\* symbolic link, the call returns the symlink-target error and the content
\* of the link's target is unchanged.
C4_LinkTargetGivesSymlinkError ==
    (WriteDone /\ FinalWasLink)
        => (result.text = TxtSymlink /\ LinkTargetUnchanged)

\* C4 (amended): when the last component of the target is an existing
\* symbolic link, the call never reports success and the content of the
\* link's target is unchanged; it returns the symlink-target error when the
\* path passes the lexical checks, no directory between the target and the
\* root is a symbolic link and no earlier filesystem call fails.
C4_LinkTargetRejected ==
    (WriteDone /\ FinalWasLink)
        => /\ ~IsSuccess(result.text)
           /\ IsError(result.text)
           /\ LinkTargetUnchanged
           /\ ( /\ ValidateWrite(vaultPath, req.filePath) = NoError
                /\ \A a \in AncestorsOf(FullPathOf(req.filePath)) : ~IsLink(pre.fs, a)
                /\ ~loc.injected )
              => (result.text = TxtSymlink /\ result.text # TxtGeneric /\ FsUnchanged)

\* A write to a link that points outside the root has been answered with
\* the symlink-target error.
C4_Witness ==
    /\ WriteDone
    /\ req.filePath = nLinkOut
    /\ ~Inside(pre.fs[FullPathOf(req.filePath)].target)
    /\ result.text = TxtSymlink

\* Whenever the last component of the target is a link that leads to a
\* file, that file is as it was when the request arrived.
LinkTargetIntact ==
    (req.op = "write" /\ pc # "idle" /\ loc.fullPath # <<>>
        /\ IsLink(fs, loc.fullPath))
    => LET r == Follow(fs, loc.fullPath) IN
       (r.errno = "" /\ fs[r.path].kind = "file")
           => /\ fs[r.path].ino \in 1..Len(pre.inodes)
              /\ inodes[fs[r.path].ino] = pre.inodes[fs[r.path].ino]

\* The step that acquires the write handle is the step that tests the last
\* component: a handle is acquired only from a state in which the last
\* component is not a link, and the inode it is bound to is the one at that
\* place in that very state, or a new one.
OpenTestsAndAcquires ==
    (loc.fd = 0 /\ loc'.fd # 0)
        => /\ ~IsLink(fs, loc.fullPath)
           /\ \/ /\ NoFollow(fs, loc.fullPath).errno = ""
                 /\ (CHOOSE d \in fds' : d.fd = loc'.fd).ino = fs[NoFollow(fs, loc.fullPath).path].ino
              \/ /\ NoFollow(fs, loc.fullPath).errno # ""
                 /\ (CHOOSE d \in fds' : d.fd = loc'.fd).ino = Len(inodes) + 1

\* C5: while a write-file request is served and an external process may at
\* any moment replace the last component of its target by a symbolic link,
\* the request never modifies the file such a link leads to, and the test of
\* the last component and the acquisition of the write handle are one step.
C5_RaceNeverWritesThroughLink ==
    []LinkTargetIntact /\ [][OpenTestsAndAcquires]_vars

\* The external process put a link at the target after the handler had
\* opened it; the handler wrote and reported success.
C5_Witness ==
    /\ WriteDone
    /\ ext > 0
    /\ IsLink(fs, loc.fullPath)
    /\ ~IsLink(pre.fs, loc.fullPath)
    /\ IsSuccess(result.text)

\* C6: a write-file request whose extension, lower-cased, is not in the
\* allowlist (no extension included) is rejected whatever its content; one
\* whose extension is in the allowlist is never answered with the extension
\* error.
C6_ExtensionAllowlist ==
    WriteDone =>
        IF ToLowerCase(ExtName(req.filePath)) \in ALLOWED_WRITE_EXTENSIONS
        THEN result.text.msg # MsgExtension
        ELSE IsError(result.text) /\ ~IsSuccess(result.text) /\ FsUnchanged

\* A path without an extension, free of dot segments and NUL, has been
\* rejected with the extension error.
C6_Witness ==
    /\ WriteDone
    /\ ExtName(req.filePath) = <<>>
    /\ DotSegments(req.filePath) = {}
    /\ ~Includes(req.filePath, NUL)
    /\ result.text.msg = MsgExtension

\* The root's segments are a proper prefix of the path's segments.
StrictDescendant(fullPath, root) ==
    LET ps == Split(fullPath)
        rs == Split(root)
    IN  /\ Len(ps) > Len(rs)
        /\ \A i \in 1..Len(rs) : ps[i] = rs[i]

\* C7: the containment check passes exactly for the strict descendants of
\* the root: it rejects the root itself, every path outside the root, and a
\* sibling that has the root's string as a prefix.
C7_ContainmentIsStrictDescent ==
    probe.verdict # "none" =>
        /\ probe.verdict = "pass" <=> StrictDescendant(probe.fullPath, probe.resolvedVault)
        /\ probe.fullPath = probe.resolvedVault => probe.verdict = "reject"
        /\ ( /\ StartsWith(probe.fullPath, probe.resolvedVault)
             /\ Len(probe.fullPath) > Len(probe.resolvedVault)
             /\ probe.fullPath[Len(probe.resolvedVault) + 1] # SEP )
           => probe.verdict = "reject"

\* The root itself has been submitted to the check and rejected.
C7_Witness ==
    /\ probe.verdict = "reject"
    /\ probe.fullPath = probe.resolvedVault

\* C8: a write-file request that fails with a native filesystem error other
\* than ELOOP is answered with the one generic failure text, which carries
\* neither the error's code nor the path it names; so is the Error of an
\* unset root.
C8_NativeErrorsFlattened ==
    /\ (WriteDone /\ IsNative(result.error)) => result.text = TxtGeneric
    /\ CatchWrite(getVaultPath(<<>>)) = TxtGeneric

\* A call has failed with a native error that names a path, and its answer
\* is the generic text.
C8_Witness ==
    /\ WriteDone
    /\ IsNative(result.error)
    /\ result.error.arg # <<>>
    /\ result.text = TxtGeneric

\* C9 (as claimed): every handler ends by returning a result; no Error
\* leaves a handler uncaught.
C9_NoUncaughtException ==
    pc = "done" => result.kind = "return"

\* The physical place of an inventory entry is the entry's own path below
\* the root: no symbolic link was passed on the way to it.
ReachedWithoutLinks(file) ==
    LET abs == PathJoin(vaultPath, file) IN
    /\ abs \in DOMAIN fs
    /\ fs[abs].kind = "file"
    /\ \A k \in 1..Len(AbsSegs(abs)) :
          fs[AbsPath(SubSeq(AbsSegs(abs), 1, k))].kind # "link"

\* C10: the inventory of list-files and the files scan-todos reads hold no
\* entry with a dot-prefixed name at any depth, no symbolic link, and no
\* entry reached through a symlinked directory.
C10_InventoryExcludesDotAndLinks ==
    (pc = "done" /\ req.op \in {"list", "todos"} /\ result.kind = "return")
        => \A i \in 1..Len(result.files) :
              /\ DotSegments(result.files[i]) = {}
              /\ ReachedWithoutLinks(result.files[i])
              /\ Inside(PathJoin(vaultPath, result.files[i]))

\* list-files has answered for a root that holds a dot directory, a link to
\* a file and a link to a directory, and its inventory is not empty.
C10_Witness ==
    /\ pc = "done" /\ req.op = "list" /\ result.kind = "return"
    /\ Len(result.files) > 0
    /\ \E p \in DOMAIN fs : Inside(p) /\ fs[p].kind = "link" /\ IsDirThroughLinks(fs, p)
    /\ \E p \in DOMAIN fs : Inside(p) /\ fs[p].kind = "link" /\ ~IsDirThroughLinks(fs, p)
    /\ \E p \in DOMAIN fs : Inside(p) /\ DotSegments(p) # {}

\* The stage of the lookup that decides for a name: 1 exact path, 2 the
\* path compared without case, 3 the base name searched without case.
LastSegment(file) == Split(file)[Len(Split(file))]
ExactHits(allFiles, name) == {i \in 1..Len(allFiles) : allFiles[i] = name}
CaselessHits(allFiles, name) ==
    {i \in 1..Len(allFiles) : ToLowerCase(allFiles[i]) = ToLowerCase(name)}
PartialHits(allFiles, name) ==
    {i \in 1..Len(allFiles) :
        Contains(ToLowerCase(LastSegment(allFiles[i])), ToLowerCase(name))}
StageOf(allFiles, name) ==
    IF ExactHits(allFiles, name) # {} THEN 1
    ELSE IF CaselessHits(allFiles, name) # {} THEN 2
    ELSE 3

MaxPartialMatches == 5

\* C11 (as claimed): a name resolved by partial matching yields at most 5
\* files.
C11_PartialMatchesCapped ==
    (probe.applied /\ StageOf(probe.allFiles, probe.targetName) = 3)
        => Len(probe.chosen) <= MaxPartialMatches

\* The size in bytes, when the request arrived, of the file an inventory
\* entry names.
SizeWhenRead(file) ==
    pre.inodes[pre.fs[Follow(pre.fs, PathJoin(vaultPath, file)).path].ino].size

\* C12 (as claimed): read-files and scan-todos read the content of no file
\* larger than the read ceiling.
C12_NoReadAboveCeiling ==
    (pc = "done" /\ req.op \in {"read", "todos"} /\ result.kind = "return")
        => \A i \in 1..Len(result.files) :
              SizeWhenRead(result.files[i]) <= getMaxReadSize

\* What list-files and read-files of one name return when called on the
\* filesystem as it is.
ListedNow == getAllFilenames(fs, inodes, vaultPath)
ReadBackNow(name) == readFilesByName(fs, inodes, vaultPath, <<name>>)

\* C13 (as claimed): after a successful write-file(path, content), the next
\* list-files has an entry for the written file and the next read-files of
\* the same path returns one block, with the content that was written.
C13_WriteThenListAndRead ==
    (WriteDone /\ IsSuccess(result.text))
        => /\ \E i \in 1..Len(ListedNow) :
                 PathJoin(vaultPath, ListedNow[i]) = FullPathOf(req.filePath)
           /\ Len(ReadBackNow(req.filePath)) = 1
           /\ ReadBackNow(req.filePath)[1].found
           /\ ReadBackNow(req.filePath)[1].content = req.content

\* The number of "/"-separated segments of a path: one more than its
\* separators.
DepthOf(filePath) == Cardinality({i \in 1..Len(filePath) : filePath[i] = SEP}) + 1

C15_ContentCeilingInBytes ==
    probe.applied =>
        (probe.accepted <=> Utf8Bytes(probe.content) <= 1000000)

\* An absolute path none of whose components is a symbolic link, naming a
\* directory.
IsRealDirectory(f, abs) ==
    /\ abs \in DOMAIN f
    /\ f[abs].kind = "dir"
    /\ \A k \in 0..Len(AbsSegs(abs)) : f[AbsPath(SubSeq(AbsSegs(abs), 1, k))].kind = "dir"

\* The path the argument resolves to, before links are followed.
RootResolved == PathResolve(probe.cwd, probe.arg.value)
RootArgMissing == ~probe.arg.given \/ probe.arg.value = <<>>

\* C16: validateVaultPath throws exactly when the argument is absent or
\* empty, or the path it resolves to does not exist, or exists and is not a
\* directory, each with its own message; otherwise it returns an absolute
\* path free of symbolic links that names the same directory: the resolved
\* path itself when that holds no link, the link's target when the resolved
\* path is a link.
C16_ResolveRoot ==
    probe.applied =>
        /\ probe.outcome.error # NoError
              <=> \/ RootArgMissing
                  \/ Follow(fs, RootResolved).errno # ""
                  \/ ~IsDirThroughLinks(fs, RootResolved)
        /\ RootArgMissing <=> probe.outcome.error.msg = MsgUsage
        /\ (~RootArgMissing /\ Follow(fs, RootResolved).errno # "")
              <=> probe.outcome.error.msg = MsgNoSuchPath
        /\ (~RootArgMissing /\ Follow(fs, RootResolved).errno = ""
                /\ ~IsDirThroughLinks(fs, RootResolved))
              <=> probe.outcome.error.msg = MsgNotDirectory
        /\ probe.outcome.error = NoError =>
              /\ IsRealDirectory(fs, probe.outcome.path)
              /\ IsRealDirectory(fs, RootResolved) => probe.outcome.path = RootResolved
              /\ IsLink(fs, RootResolved) =>
                    probe.outcome = validateVaultPath(fs, <<SEP>>,
                        [given |-> TRUE, value |-> fs[NoFollow(fs, RootResolved).path].target])

\* A root given through a symbolic link has been returned as the link's
\* target.
C16_Witness ==
    /\ probe.applied
    /\ IsLink(fs, RootResolved)
    /\ probe.outcome.error = NoError
    /\ probe.outcome.path = OutsideDir
    /\ probe.outcome.path # RootResolved

\* C17 (as claimed): every operation obtains the root through the accessor,
\* which fails when the root is unset: called with the root unset, each of
\* the four operations ends with the accessor's Error.
C17_EveryOperationUsesAccessor ==
    (pc = "done" /\ vaultPath = <<>>)
        => result.error = getVaultPath(vaultPath)

\* The k-th smallest member of a set of indices.
NthOf(S, k) == CHOOSE i \in S : Cardinality({j \in S : j < i}) = k - 1

\* C18: a requested name is resolved (1) by the inventory entry equal to it;
\* failing that (2) by an entry equal to it when case is ignored; failing
\* that (3) by the entries whose base name, case ignored, contains it, in
\* inventory order. Stages 1 and 2 give exactly one file, and a later stage
\* is used only when the earlier ones match nothing.
C18_LookupOrder ==
    probe.applied =>
        LET all == probe.allFiles
            name == probe.targetName
            chosen == probe.chosen
            hits == PartialHits(all, name)
        IN  /\ StageOf(all, name) = 1 => chosen = <<name>>
            /\ StageOf(all, name) = 2 =>
                  /\ Len(chosen) = 1
                  /\ \E i \in CaselessHits(all, name) : chosen[1] = all[i]
            /\ StageOf(all, name) = 3 =>
                  /\ Len(chosen) = Cardinality(hits)
                  /\ \A k \in 1..Len(chosen) : chosen[k] = all[NthOf(hits, k)]

\* A name found by neither of the first two stages has been resolved by
\* base name, while a file that holds the name in its directory only was
\* left out.
C18_Witness ==
    /\ probe.applied
    /\ StageOf(probe.allFiles, probe.targetName) = 3
    /\ Len(probe.chosen) >= 1
    /\ \E i \in 1..Len(probe.allFiles) :
          /\ Contains(ToLowerCase(probe.allFiles[i]), ToLowerCase(probe.targetName))
          /\ i \notin PartialHits(probe.allFiles, probe.targetName)

\* The blocks one requested name accounts for: a single not-found marker
\* that carries the name, or the content of one or more files of the
\* vault, each of which the name matches at some stage.
AnswersName(blocks, name) ==
    \/ /\ Len(blocks) = 1
       /\ ~blocks[1].found
       /\ blocks[1].path = name
    \/ /\ Len(blocks) >= 1
       /\ \A i \in 1..Len(blocks) :
             /\ blocks[i].found
             /\ blocks[i].content =
                   pre.inodes[pre.fs[PathJoin(vaultPath, blocks[i].path)].ino].content
             /\ \/ ToLowerCase(blocks[i].path) = ToLowerCase(name)
                \/ Contains(ToLowerCase(LastSegment(blocks[i].path)), ToLowerCase(name))

\* The blocks are the answers to the names, one group after the other.
RECURSIVE AnswersInOrder(_, _)
AnswersInOrder(blocks, names) ==
    IF Len(names) = 0 THEN Len(blocks) = 0
    ELSE \E k \in 1..Len(blocks) :
            /\ AnswersName(SubSeq(blocks, 1, k), Head(names))
            /\ AnswersInOrder(SubSeq(blocks, k + 1, Len(blocks)), Tail(names))

MtimeNow(file) == inodes[fs[PathJoin(vaultPath, file)].ino].mtime

\* C20: the inventory list-files returns is ordered by modification time,
\* most recent first: each entry is at least as recent as the one after it.
C20_ListedByMtime ==
    (pc = "done" /\ req.op = "list" /\ result.kind = "return")
        => \A i \in 1..(Len(result.files) - 1) :
              MtimeNow(result.files[i]) >= MtimeNow(result.files[i + 1])

\* list-files has returned three or more files of distinct modification
\* times, the file written last at the head, in an order that is not the
\* order of enumeration.
C20_Witness ==
    /\ pc = "done" /\ req.op = "list" /\ result.kind = "return"
    /\ Len(result.files) >= 3
    /\ \A i \in 1..(Len(result.files) - 1) :
          MtimeNow(result.files[i]) > MtimeNow(result.files[i + 1])
    /\ MtimeNow(result.files[1]) = clock
    /\ result.files # SelectSeq(globSync(fs, vaultPath, <<>>),
                                LAMBDA file : ~IsLink(fs, PathJoin(vaultPath, file)))

\* An unchecked checklist line: the six characters "- [ ] " followed by at
\* least one more character. A checked line has a mark between the brackets.
UncheckedLine(line) ==
    \E i \in 1..(Len(line) - 6) :
        /\ line[i] = "-" /\ line[i + 1] = " " /\ line[i + 2] = "["
        /\ line[i + 3] = " " /\ line[i + 4] = "]" /\ line[i + 5] = " "
CheckedLine(line) ==
    \E i \in 1..(Len(line) - 4) :
        /\ line[i] = "-" /\ line[i + 1] = " " /\ line[i + 2] = "["
        /\ line[i + 3] # " " /\ line[i + 4] = "]"

\* The relative paths of the markdown files of the root: regular files with
\* the extension ".md", no dot-prefixed segment and no link on the way.
RelativeTo(root, abs) == SubSeq(abs, Len(root) + 2, Len(abs))
EligibleMarkdown ==
    { RelativeTo(vaultPath, abs) : abs \in
        { q \in DOMAIN fs :
            /\ Inside(q)
            /\ fs[q].kind = "file"
            /\ ExtName(q) = <<".", "m", "d">>
            /\ DotSegments(RelativeTo(vaultPath, q)) = {}
            /\ ReachedWithoutLinks(RelativeTo(vaultPath, q)) } }
LinesOf(file) == inodes[fs[PathJoin(vaultPath, file)].ino].content

RecordsOf(file) ==
    LET ofFile(item) == item.path = file
        kept == SelectSeq(result.items, ofFile)
    IN  [k \in 1..Len(kept) |-> kept[k].content[1]]
UncheckedOf(file) ==
    LET kept == SelectSeq(LinesOf(file), UncheckedLine)
    IN  [k \in 1..Len(kept) |-> Trim(kept[k])]

\* C22: the records of scan-todos come file by file, the most recently
\* modified file first, and within one file in the order of its lines.
C22_TodosByMtimeThenLine ==
    (pc = "done" /\ req.op = "todos" /\ result.kind = "return" /\ vaultPath # <<>>)
        => /\ \A k \in 1..(Len(result.items) - 1) :
                 MtimeNow(result.items[k].path) >= MtimeNow(result.items[k + 1].path)
           /\ \A file \in { result.items[k].path : k \in 1..Len(result.items) } :
                 RecordsOf(file) = UncheckedOf(file)

\* A step of a write-file call that changes the filesystem while nothing has
\* been changed since the call began: the call's first mutating step.
FirstMutatingStep ==
    /\ req.op = "write"
    /\ pc \in {"mkdir", "open"}
    /\ FsUnchanged
    /\ (fs' # fs \/ inodes' # inodes)

\* What the spec requires of the resolved path before any I/O.
GuardedTarget(f, fullPath) ==
    /\ StrictDescendant(fullPath, PathResolve(vaultPath, <<>>))
    /\ \A a \in AncestorsOf(fullPath) : ~IsLink(f, a)
    /\ ~IsLink(f, fullPath)

\* C23: when write-file takes its first mutating step (the creation of
\* directories or the open of the target), the resolved path is a strict
\* descendant of the root, no existing directory between it and the root is
\* a symbolic link, and the path itself is not a symbolic link.
C23_GuardedBeforeFirstMutation ==
    [][FirstMutatingStep => GuardedTarget(fs, loc.fullPath)]_vars

\* The walk is entered from the directory creation, at the parent of the
\* target, which exists by then.
WalkEnteredAfterMkdir ==
    (pc # "walk" /\ pc' = "walk")
        => /\ pc = "mkdir"
           /\ loc'.current = Dirname(loc.fullPath)
           /\ existsSync(fs', Dirname(loc.fullPath))

\* The directories the walk has gone past, those deeper than its position,
\* were examined: none is a symbolic link.
WalkedPastAreExamined ==
    pc = "walk" =>
        \A a \in AncestorsOf(loc.fullPath) :
            Len(a) > Len(loc.current) => ~IsLink(fs, a)

\* The open is entered from the walk, once the walk has arrived at the root.
OpenEnteredAfterWalk ==
    (pc # "open" /\ pc' = "open")
        => (pc = "walk" /\ loc.current = PathResolve(vaultPath, <<>>))

\* When the open acquires the target, every directory between the target
\* and the root has passed the walk's test.
OpenedBelowExaminedDirs ==
    (pc = "open" /\ fds' # fds)
        => \A a \in AncestorsOf(loc.fullPath) : existsSync(fs, a) /\ ~IsLink(fs, a)

\* C24: in write-file the ancestor walk runs after the creation of the
\* missing directories and before the open, and every directory between the
\* target and the root that exists when the target is opened, those created
\* by the call included, has been examined by the walk.
C24_WalkAfterMkdirBeforeOpen ==
    /\ []WalkedPastAreExamined
    /\ [][WalkEnteredAfterMkdir]_vars
    /\ [][OpenEnteredAfterWalk]_vars
    /\ [][OpenedBelowExaminedDirs]_vars

\* The target has been opened below a directory that the call created.
C24_Witness ==
    /\ pc = "write" /\ req.op = "write"
    /\ \E a \in AncestorsOf(loc.fullPath) : a \notin DOMAIN pre.fs /\ a \in DOMAIN fs

\* Every regular file outside the root was there when the request arrived
\* and holds what it held then.
OutsideUntouched ==
    \A p \in DOMAIN fs :
        (~Inside(p) /\ req.op = "write" /\ fs[p].kind = "file")
            => /\ p \in DOMAIN pre.fs
               /\ fs[p].ino \in 1..Len(pre.inodes)
               /\ inodes[fs[p].ino] = pre.inodes[fs[p].ino]

\* C25: while an external process may at any moment of a write-file call
\* replace a directory between the target and the root by a symbolic link,
\* the call never creates or modifies a file outside the root.
C25_AncestorRaceStaysInside ==
    OutsideUntouched

\* C26: whenever write-file returns a rejection or a failure marker, for
\* any cause, the filesystem is as it was when the request arrived: no
\* directory and no file has been created, and no file has been truncated
\* or modified, inside or outside the root.
C26_FailureLeavesNoTrace ==
    (WriteDone /\ result.kind = "return" /\ IsError(result.text)) => FsUnchanged

\* The calls a returned read-files or scan-todos request has made for the
\* files it read.
CallsMade == readCalls(vaultPath, result.files)

\* C27: read-files and scan-todos test, immediately before each read of a
\* file, that the absolute path about to be read is a strict descendant of
\* the root: every readFileSync among the calls of a returned request comes
\* right after an assertInsideVault on the same path, which passed.
C27_ContainmentRecheckedBeforeRead ==
    (pc = "done" /\ req.op \in {"read", "todos"} /\ result.kind = "return")
        => \A i \in 1..Len(CallsMade) :
              CallsMade[i].fn = "readFileSync"
                  => /\ i > 1
                     /\ CallsMade[i - 1] = CallOf("assertInsideVault", CallsMade[i].path)
                     /\ assertInsideVault(CallsMade[i].path,
                                          PathResolve(vaultPath, <<>>)) = NoError

\* The names of a request that are not plain relative paths: the empty
\* string, a name with a ".." or a dot-prefixed segment, an absolute path.
HostileName(name) ==
    \/ name = <<>>
    \/ IsAbsolute(name)
    \/ DotSegments(name) # {}

\* C28: whatever names read-files is given, each file whose content it
\* returns is an entry of the inventory of the root, has no dot-prefixed
\* segment, is a regular file reached through no symbolic link, lies below
\* the root, and the content returned is the content of that very file.
C28_ReadsOnlyInventoryMembers ==
    (pc = "done" /\ req.op = "read" /\ result.kind = "return")
        => \A k \in 1..Len(result.items) :
              result.items[k].found
                  => /\ result.items[k].path \in Range(ListedNow)
                     /\ DotSegments(result.items[k].path) = {}
                     /\ ReachedWithoutLinks(result.items[k].path)
                     /\ Inside(PathJoin(vaultPath, result.items[k].path))
                     /\ result.items[k].content = LinesOf(result.items[k].path)

\* read-files has answered a request of one hostile name with the content
\* of files, on a root that holds a dot directory with a file in it and a
\* link to a file outside.
C28_Witness ==
    /\ pc = "done" /\ req.op = "read" /\ result.kind = "return"
    /\ Len(req.names) = 1 /\ HostileName(req.names[1])
    /\ \E k \in 1..Len(result.items) : result.items[k].found
    /\ \E p \in DOMAIN fs : Inside(p) /\ fs[p].kind = "link" /\ ~Inside(fs[p].target)
    /\ \E p \in DOMAIN fs : Inside(p) /\ fs[p].kind = "file" /\ DotSegments(p) # {}

\* What is wrong with a requested path, stated on the path itself.
HasNul(filePath) == \E i \in 1..Len(filePath) : filePath[i] = NUL
HasDotSegment(filePath) == DotSegments(filePath) # {}
HasBadExtension(filePath) ==
    ToLowerCase(ExtName(filePath)) \notin ALLOWED_WRITE_EXTENSIONS
IsTooLong(filePath) == Len(filePath) > MAX_PATH_LENGTH
IsTooDeep(filePath) == DepthOf(filePath) > MAX_PATH_DEPTH
Escapes(filePath) == ~StrictDescendant(FullPathOf(filePath), PathResolve(vaultPath, <<>>))

\* The message of the first check, in the documented order, that the path
\* fails; "" when it passes them all.
FirstFailure(filePath) ==
    IF HasNul(filePath) THEN MsgNullBytes
    ELSE IF HasDotSegment(filePath) THEN MsgDotPath
    ELSE IF HasBadExtension(filePath) THEN MsgExtension
    ELSE IF IsTooLong(filePath) THEN MsgExceedsLength
    ELSE IF IsTooDeep(filePath) THEN MsgExceedsDepth
    ELSE IF Escapes(filePath) THEN MsgEscapes
    ELSE ""
FailureCount(filePath) ==
    Cardinality({ k \in 1..5 :
        \/ k = 1 /\ HasNul(filePath)
        \/ k = 2 /\ HasDotSegment(filePath)
        \/ k = 3 /\ HasBadExtension(filePath)
        \/ k = 4 /\ (IsTooLong(filePath) \/ IsTooDeep(filePath))
        \/ k = 5 /\ Escapes(filePath) })

\* A request that fails a lexical check is answered with the message of the
\* first check it fails, and none of the later steps has run: the handler's
\* locals are unset and the filesystem is untouched.
FirstFailureAnswered ==
    (WriteDone /\ FirstFailure(req.filePath) # "")
        => /\ result.kind = "return"
           /\ result.text.prefix = "Error: "
           /\ result.text.msg = FirstFailure(req.filePath)
           /\ loc = NoLoc
           /\ FsUnchanged

\* The steps of a request follow one another in the order listing,
\* directory creation, ancestor walk, open, write, close; a step that fails
\* ends the request.
StepsInOrder ==
    pc' # pc =>
        \/ pc = "idle"
        \/ pc = "done" /\ pc' = "idle"
        \/ pc' = "done"
        \/ pc = "list" /\ pc' = "mkdir" /\ FirstFailure(req.filePath) = ""
        \/ pc = "mkdir" /\ pc' = "walk"
        \/ pc = "walk" /\ pc' = "open"
        \/ pc = "open" /\ pc' = "write"
        \/ pc = "write" /\ pc' = "close"

\* C29: write-file applies its checks in the order null byte, dot segment,
\* extension, length and depth, containment, and then creates directories,
\* walks the ancestors and opens; a path that fails several checks gets the
\* error of the first one in this order, and no later step runs.
C29_ChecksInFixedOrder ==
    []FirstFailureAnswered /\ [][StepsInOrder]_vars

\* A request whose path fails two checks has been answered with the error
\* of the first: a path that is too deep and leaves the root gets the depth
\* error.
C29_Witness ==
    /\ WriteDone
    /\ FailureCount(req.filePath) = 2
    /\ IsTooDeep(req.filePath)
    /\ Escapes(req.filePath)
    /\ result.text = TxtOf(MsgExceedsDepth)

\* The descriptors held now are those held when the request arrived.
DescriptorsRestored == fds = pre.fds

\* closeSync itself threw: the call ends in the catch block with its error.
CloseFailed == result.error = NativeError("EIO", <<>>)

ClosePrecedesExit ==
    /\ (pc = "write" /\ pc' # pc) => pc' = "close"
    /\ (loc.fd # 0 /\ pc' = "done" /\ pc # "done") => pc = "close"
    /\ (pc = "close" /\ pc' = "done" /\ ~CloseFailed')
            => fds' = {d \in fds : d.fd # loc.fd}

====
